---- MODULE Spec2Model ----
(***************************************************************************)
(* A model of update.py: the catalog redirect tracker.  main() loads the   *)
(* Location Record from locations.json, probes each tracked product for a  *)
(* redirect target, saves the record, flattens it into a work list and     *)
(* runs process_url on every item through a thread pool, then prints       *)
(* "successful/total".                                                     *)
(*                                                                         *)
(* Python dicts are sequences of <<key, value>> pairs with unique keys, in *)
(* insertion order.  The text of the state file is a sequence of tokens,   *)
(* written by JsonDump and read back by JsonLoad.                          *)
(***************************************************************************)
EXTENDS Integers, Sequences, FiniteSets, TLC

VARIABLES
    platform,   \* sys.platform of the host: "win32" or "linux"
    file,       \* locations.json: [kind, text]
    cabs,       \* the output directories that hold an archive.cab
    mainpc,     \* main()'s position
    crash,      \* where an exception left main(), "none" while it runs
    data,       \* main()'s local `data`
    loaded,     \* what load_existing_data returned (history)
    pidx,       \* index in URLS of the next product to probe
    clock,      \* datetime.now()
    probes,     \* the responses of the probes made so far (history)
    saveCount,  \* number of completed save_data calls (history)
    items,      \* url_list, each work item with its process_url position
    summary,    \* the final "successful/total" line: <<K, N>>, <<>> before
    lock,       \* print_lock: the set of threads that hold it
    inprint,    \* the threads inside a print section
    pending,    \* per thread, the print sections it has yet to go through
    recv        \* per item, chunks written: 0 none, else 1 odd, 2 even

\* The threads' own state, which the steps of main and process_url leave
\* alone where the print sections are not followed.
tvars == <<lock, inprint, pending, recv>>

vars == <<platform, file, cabs, mainpc, crash, data, loaded, pidx, clock,
          probes, saveCount, items, summary, lock, inprint, pending, recv>>

----------------------------------------------------------------------------
(* Configuration                                                           *)

\* The tracked products, in the iteration order of the URLS dict.
URLS == <<"Win10", "Win11">>

MAX_WORKERS == 5

\* A URL is the list url.split('/') would give for its text without a final
\* ".cab", and whether the text ends in ".cab".
UA == [segs |-> <<"http:", "", "dl", "c", "upgr", "2024", "05", "p1">>, cab |-> TRUE]
UB == [segs |-> <<"https:", "", "dl", "c", "upgr", "2024", "05", "p1">>, cab |-> TRUE]
UC == [segs |-> <<"http:", "", "dl", "c", "upgr", "2024", "05", "p2">>, cab |-> TRUE]

\* The redirect targets the probe of a product can return: each product has
\* its own catalog, and that of Win10 is served under two schemes.
Targets(os_name) == IF os_name = "Win10" THEN {UA, UB} ELSE {UC}

AllTargets == {UA, UB, UC}

\* Thread 0 is the coordinator, thread i the worker running item i.
Workers == 1..(Len(URLS) * Cardinality(AllTargets))
Threads == {0} \cup Workers

----------------------------------------------------------------------------
(* dict                                                                    *)

DictHas(d, k) == \E i \in 1..Len(d) : d[i][1] = k

DictGet(d, k) == d[CHOOSE i \in 1..Len(d) : d[i][1] = k][2]

\* d[k] = v: an existing key keeps its position.
DictSet(d, k, v) ==
    IF DictHas(d, k)
    THEN [i \in 1..Len(d) |-> IF d[i][1] = k THEN <<k, v>> ELSE d[i]]
    ELSE Append(d, <<k, v>>)

\* A JSON value as json.load returns it: an object of objects, or a list.
PyDict(its) == [type |-> "dict", items |-> its]
PyList == [type |-> "list", items |-> <<>>]
EmptyDict == PyDict(<<>>)

----------------------------------------------------------------------------
(* json.dump / json.load                                                   *)

Tok(t, k, v) == [t |-> t, k |-> k, v |-> v]

DumpEntries(urls) == [i \in 1..Len(urls) |-> Tok("entry", urls[i][1], urls[i][2])]

RECURSIVE DumpMembers(_)
DumpMembers(its) ==
    IF its = <<>> THEN <<>>
    ELSE <<Tok("key", Head(its)[1], 0), Tok("open", "", 0)>>
         \o DumpEntries(Head(its)[2])
         \o <<Tok("close", "", 0)>>
         \o DumpMembers(Tail(its))

JsonDump(d) ==
    IF d.type = "list"
    THEN <<Tok("lbracket", "", 0), Tok("rbracket", "", 0)>>
    ELSE <<Tok("begin", "", 0)>> \o DumpMembers(d.items) \o <<Tok("end", "", 0)>>

ParseFail == [ok |-> FALSE, next |-> 0, val |-> <<>>]

RECURSIVE ParseEntries(_, _, _)
ParseEntries(text, i, acc) ==
    IF i > Len(text) THEN ParseFail
    ELSE IF text[i].t = "entry"
         THEN ParseEntries(text, i + 1, DictSet(acc, text[i].k, text[i].v))
    ELSE IF text[i].t = "close" THEN [ok |-> TRUE, next |-> i + 1, val |-> acc]
    ELSE ParseFail

RECURSIVE ParseMembers(_, _, _)
ParseMembers(text, i, acc) ==
    IF i > Len(text) THEN ParseFail
    ELSE IF text[i].t = "end"
         THEN [ok |-> i = Len(text), next |-> i + 1, val |-> acc]
    ELSE IF text[i].t = "key" /\ i + 1 <= Len(text) /\ text[i + 1].t = "open"
         THEN LET r == ParseEntries(text, i + 2, <<>>)
              IN  IF r.ok
                  THEN ParseMembers(text, r.next, DictSet(acc, text[i].k, r.val))
                  ELSE ParseFail
    ELSE ParseFail

\* [ok, val]: ok is FALSE where json.load raises JSONDecodeError.
JsonLoad(text) ==
    IF text = <<>> THEN [ok |-> FALSE, val |-> EmptyDict]
    ELSE IF text[1].t = "lbracket"
         THEN [ok |-> Len(text) = 2 /\ text[2].t = "rbracket", val |-> PyList]
    ELSE IF text[1].t = "begin"
         THEN LET r == ParseMembers(text, 2, <<>>)
              IN  [ok |-> r.ok, val |-> PyDict(r.val)]
    ELSE [ok |-> FALSE, val |-> EmptyDict]

----------------------------------------------------------------------------
(* The state file at the start of a run                                    *)

AbsentFile == [kind |-> "absent", text |-> <<>>]
\* Bytes the text codec cannot decode: reading them raises UnicodeDecodeError.
BytesFile == [kind |-> "bytes", text |-> <<>>]
TextFile(text) == [kind |-> "text", text |-> text]

\* The entries earlier runs may have recorded, oldest first, all at time 0;
\* this run's clock starts at 1.
Recorded == << <<"Win10", UA>>, <<"Win11", UC>>, <<"Win10", UB>>, <<"Win11", UA>> >>

\* The largest number of entries in the state file at the start of a run.
MaxLoaded == 2

RECURSIVE RecordOf(_)
\* The record holding the first n entries of Recorded.
RecordOf(n) ==
    IF n = 0 THEN <<>>
    ELSE LET d == RecordOf(n - 1)
             os_name == Recorded[n][1]
             urls == IF DictHas(d, os_name) THEN DictGet(d, os_name) ELSE <<>>
         IN  DictSet(d, os_name, DictSet(urls, Recorded[n][2], 0))

InitialFiles ==
    { AbsentFile, BytesFile,
      TextFile(<<>>),                              \* an empty file
      TextFile(<<Tok("begin", "", 0), Tok("key", "Win10", 0)>>),  \* cut short
      TextFile(JsonDump(PyList)) }                 \* valid JSON, not an object
    \cup {TextFile(JsonDump(PyDict(RecordOf(n)))) : n \in 0..MaxLoaded}

----------------------------------------------------------------------------
(* load_existing_data                                                      *)

\* [raised, val]
load_existing_data(f) ==
    IF f.kind = "absent" THEN [raised |-> FALSE, val |-> EmptyDict]
    ELSE IF f.kind = "bytes" THEN [raised |-> TRUE, val |-> EmptyDict]
    ELSE LET r == JsonLoad(f.text)
         IN  IF r.ok THEN [raised |-> FALSE, val |-> r.val]
             ELSE [raised |-> FALSE, val |-> EmptyDict]

Load ==
    /\ mainpc = "load"
    /\ LET r == load_existing_data(file)
       IN  IF r.raised
           THEN /\ mainpc' = "crashed"
                /\ crash' = "load"
                /\ UNCHANGED <<data, loaded>>
           ELSE /\ mainpc' = "probe"
                /\ data' = r.val
                /\ loaded' = r.val
                /\ crash' = crash
    /\ UNCHANGED <<platform, file, cabs, pidx, clock, probes, saveCount,
                   items, summary>>

----------------------------------------------------------------------------
(* The probe loop of main                                                  *)

Responses(os_name) ==
    {[kind |-> "redirect", loc |-> u] : u \in Targets(os_name)}
    \cup {[kind |-> "noloc", loc |-> UA], [kind |-> "error", loc |-> UA]}

\* Mutant: a target already recorded gets the current time again.
HandleProbeOverwrite(d, os_name, resp, now) ==
    IF resp.kind = "redirect"
    THEN IF d.type = "list"
         THEN [raised |-> TRUE, val |-> d]
         ELSE LET d1 == IF DictHas(d.items, os_name) THEN d.items
                        ELSE DictSet(d.items, os_name, <<>>)
                  urls == DictGet(d1, os_name)
              IN  [raised |-> FALSE,
                   val |-> PyDict(DictSet(d1, os_name,
                                          DictSet(urls, resp.loc, now)))]
    ELSE [raised |-> FALSE, val |-> d]

\* Mutant: a new target replaces the product's recorded targets.
HandleProbeReplace(d, os_name, resp, now) ==
    IF resp.kind = "redirect"
    THEN IF d.type = "list"
         THEN [raised |-> TRUE, val |-> d]
         ELSE LET d1 == IF DictHas(d.items, os_name) THEN d.items
                        ELSE DictSet(d.items, os_name, <<>>)
                  urls == DictGet(d1, os_name)
              IN  IF DictHas(urls, resp.loc)
                  THEN [raised |-> FALSE, val |-> PyDict(d1)]
                  ELSE [raised |-> FALSE,
                        val |-> PyDict(DictSet(d1, os_name,
                                               << <<resp.loc, now>> >>))]
    ELSE [raised |-> FALSE, val |-> d]

\* Mutant: the product's key is created before the Location header is read.
HandleProbeAddsKey(d, os_name, resp, now) ==
    IF resp.kind = "error" \/ d.type = "list"
    THEN [raised |-> resp.kind = "redirect", val |-> d]
    ELSE LET d1 == IF DictHas(d.items, os_name) THEN d.items
                   ELSE DictSet(d.items, os_name, <<>>)
             urls == DictGet(d1, os_name)
         IN  IF resp.kind = "redirect" /\ ~DictHas(urls, resp.loc)
             THEN [raised |-> FALSE,
                   val |-> PyDict(DictSet(d1, os_name,
                                          DictSet(urls, resp.loc, now)))]
             ELSE [raised |-> FALSE, val |-> PyDict(d1)]

\* The body of the for loop for one product: [raised, val].
HandleProbe(d, os_name, resp, now) ==
    IF resp.kind = "redirect"
    THEN IF d.type = "list"
         THEN \* `os_name not in data` holds of a list, data[os_name] = {} raises
              [raised |-> TRUE, val |-> d]
         ELSE LET d1 == IF DictHas(d.items, os_name) THEN d.items
                        ELSE DictSet(d.items, os_name, <<>>)
                  urls == DictGet(d1, os_name)
              IN  IF DictHas(urls, resp.loc)
                  THEN [raised |-> FALSE, val |-> PyDict(d1)]
                  ELSE [raised |-> FALSE,
                        val |-> PyDict(DictSet(d1, os_name,
                                               DictSet(urls, resp.loc, now)))]
    ELSE [raised |-> FALSE, val |-> d]

\* Mutant: save_data is called inside the loop, after every probe.
ProbeSavesInLoop ==
    /\ mainpc = "probe"
    /\ pidx <= Len(URLS)
    /\ \E resp \in Responses(URLS[pidx]) :
          LET r == HandleProbe(data, URLS[pidx], resp, clock)
          IN  /\ probes' = Append(probes, resp)
              /\ data' = r.val
              /\ IF r.raised
                 THEN /\ mainpc' = "crashed" /\ crash' = "probe" /\ pidx' = pidx
                      /\ UNCHANGED <<file, saveCount>>
                 ELSE /\ mainpc' = mainpc /\ crash' = crash /\ pidx' = pidx + 1
                      /\ file' = [kind |-> "text", text |-> JsonDump(r.val)]
                      /\ saveCount' = saveCount + 1
    /\ clock' = clock + 1
    /\ UNCHANGED <<platform, cabs, loaded, items, summary>>

Probe ==
    /\ mainpc = "probe"
    /\ pidx <= Len(URLS)
    /\ \E resp \in Responses(URLS[pidx]) :
          LET r == HandleProbe(data, URLS[pidx], resp, clock)
          IN  /\ probes' = Append(probes, resp)
              /\ data' = r.val
              /\ IF r.raised
                 THEN mainpc' = "crashed" /\ crash' = "probe" /\ pidx' = pidx
                 ELSE mainpc' = mainpc /\ crash' = crash /\ pidx' = pidx + 1
    /\ clock' = clock + 1
    /\ UNCHANGED <<platform, file, cabs, loaded, saveCount, items, summary>>

----------------------------------------------------------------------------
(* save_data                                                               *)

\* outcome: "ok"; "openfail", open(JSON_FILE, "w") raises; "writefail", the
\* file was truncated by open and json.dump raises before writing.
save_data(f, d, outcome) ==
    IF outcome = "ok" THEN TextFile(JsonDump(d))
    ELSE IF outcome = "writefail" THEN TextFile(<<>>)
    ELSE f

Save ==
    /\ mainpc = "probe"
    /\ pidx > Len(URLS)
    /\ \E outcome \in {"ok", "openfail", "writefail"} :
          /\ file' = save_data(file, data, outcome)
          /\ IF outcome = "ok"
             THEN mainpc' = "flatten" /\ crash' = crash /\ saveCount' = saveCount + 1
             ELSE mainpc' = "crashed" /\ crash' = "save" /\ saveCount' = saveCount
    /\ UNCHANGED <<platform, cabs, data, loaded, pidx, clock, probes, items,
                   summary>>

----------------------------------------------------------------------------
(* The work list                                                           *)

Item(os_name, url) ==
    [os_name |-> os_name, url |-> url, pc |-> "queued", dl |-> "none",
     ex |-> "none", exc |-> "none", result |-> "pending", cabAtEnd |-> FALSE]

RECURSIVE FlattenNewOnly(_)
\* Mutant: only the URLs recorded in this run (time > 0) become work items.
FlattenNewOnly(its) ==
    IF its = <<>> THEN <<>>
    ELSE LET os_name == Head(its)[1]
             urls == SelectSeq(Head(its)[2], LAMBDA kv : kv[2] > 0)
         IN  [i \in 1..Len(urls) |-> Item(os_name, urls[i][1])]
             \o FlattenNewOnly(Tail(its))

RECURSIVE Flatten(_)
\* [(os_name, url) for os_name, urls_dict in data.items() for url in urls_dict]
Flatten(its) ==
    IF its = <<>> THEN <<>>
    ELSE LET os_name == Head(its)[1]
             urls == Head(its)[2]
         IN  [i \in 1..Len(urls) |-> Item(os_name, urls[i][1])]
             \o Flatten(Tail(its))

StartPool ==
    /\ mainpc = "flatten"
    /\ IF data.type = "list"
       THEN \* a list has no items(): AttributeError
            mainpc' = "crashed" /\ crash' = "flatten" /\ items' = items
       ELSE mainpc' = "pool" /\ crash' = crash /\ items' = Flatten(data.items)
    /\ UNCHANGED <<platform, file, cabs, data, loaded, pidx, clock, probes,
                   saveCount, summary>>

----------------------------------------------------------------------------
(* process_url                                                             *)

Last5(segs) ==
    LET n == Len(segs) IN SubSeq(segs, IF n > 5 THEN n - 4 ELSE 1, n)

\* "_".join(url.split('/')[-5:]) with a final ".cab" cut off.
PathSuffix(url) ==
    LET joined == [parts |-> Last5(url.segs), cab |-> url.cab]
    IN  IF joined.cab THEN [joined EXCEPT !.cab = FALSE] ELSE joined

\* os.path.join(BASE_DIR, os_name, path_suffix)
OutputDir(os_name, url) == <<os_name, PathSuffix(url)>>

Dir(i) == OutputDir(items[i].os_name, items[i].url)

\* The directories a run can use.
Dirs == {OutputDir(URLS[p], u) : p \in 1..Len(URLS), u \in AllTargets}

Active == {i \in 1..Len(items) : items[i].pc \notin {"queued", "done"}}

\* Mutant: process_url has no except clause, the exception reaches the pool.
OnExceptionPropagates == "Raised"

\* What process_url gives the pool when its except clause runs.
OnException == "False"

\* The item returns `result`.
Finish(i, it, result, cabsAfter) ==
    items' = [items EXCEPT ![i] = [it EXCEPT !.pc = "done", !.result = result,
                                            !.cabAtEnd = Dir(i) \in cabsAfter]]

\* Mutant: every submitted item starts at once, whatever the pool's size.
StartItemUnbounded(i) ==
    /\ mainpc = "pool"
    /\ items[i].pc = "queued"
    /\ \A j \in 1..(i - 1) : items[j].pc # "queued"
    /\ \E outcome \in {"ok", "oserror"} :
          IF outcome = "ok"
          THEN items' = [items EXCEPT ![i].pc = "download"]
          ELSE Finish(i, [items[i] EXCEPT !.exc = "makedirs"], OnException, cabs)
    /\ UNCHANGED <<platform, file, cabs, mainpc, crash, data, loaded, pidx,
                   clock, probes, saveCount, summary>>

\* A free worker takes the next queued item and runs process_url up to the
\* download: the path is derived and the directory made.
StartItem(i) ==
    /\ mainpc = "pool"
    /\ items[i].pc = "queued"
    /\ \A j \in 1..(i - 1) : items[j].pc # "queued"
    /\ Cardinality(Active) < MAX_WORKERS
    /\ \E outcome \in {"ok", "oserror"} :
          IF outcome = "ok"
          THEN items' = [items EXCEPT ![i].pc = "download"]
          ELSE Finish(i, [items[i] EXCEPT !.exc = "makedirs"], OnException, cabs)
    /\ UNCHANGED <<platform, file, cabs, mainpc, crash, data, loaded, pidx,
                   clock, probes, saveCount, summary>>

DownloadOutcomes == {"ok", "http", "conn", "stream", "oserror"}

\* [ret, raised, cab]: cab is whether output_path exists afterwards.
\*   http     raise_for_status raises before the file is opened
\*   conn     requests.get raises
\*   stream   iter_content raises a RequestException with the file open
\*   oserror  f.write raises OSError, which download_cab does not catch
download_cab(outcome, had) ==
    IF outcome = "ok" THEN [ret |-> TRUE, raised |-> FALSE, cab |-> TRUE]
    ELSE IF outcome \in {"http", "conn"}
         THEN [ret |-> FALSE, raised |-> FALSE, cab |-> had]
    ELSE IF outcome = "stream" THEN [ret |-> FALSE, raised |-> FALSE, cab |-> TRUE]
    ELSE [ret |-> FALSE, raised |-> TRUE, cab |-> TRUE]

Download(i) ==
    /\ mainpc = "pool"
    /\ items[i].pc = "download"
    /\ \E outcome \in DownloadOutcomes :
          LET r == download_cab(outcome, Dir(i) \in cabs)
              it == [items[i] EXCEPT !.dl = outcome]
              after == IF r.cab THEN cabs \cup {Dir(i)} ELSE cabs \ {Dir(i)}
          IN  /\ cabs' = after
              /\ IF r.raised
                 THEN Finish(i, [it EXCEPT !.exc = "download"], OnException, after)
                 ELSE IF ~r.ret
                      THEN Finish(i, it, "False", after)
                      ELSE items' = [items EXCEPT ![i] = [it EXCEPT !.pc = "extract"]]
    /\ UNCHANGED <<platform, file, mainpc, crash, data, loaded, pidx, clock,
                   probes, saveCount, summary>>

ExtractOutcomes == {"ok", "nonzero", "timeout", "missing"}

\* [ret, raised]: FileNotFoundError (the tool is missing) is not among the
\* exceptions the Windows variant catches.
extract_cab_windows(outcome) ==
    IF outcome = "ok" THEN [ret |-> "True", raised |-> FALSE]
    ELSE IF outcome \in {"nonzero", "timeout"} THEN [ret |-> "False", raised |-> FALSE]
    ELSE [ret |-> "False", raised |-> TRUE]

\* The except clause of the Unix variant ends without a return statement.
extract_cab_unix(outcome) ==
    IF outcome = "ok" THEN [ret |-> "True", raised |-> FALSE]
    ELSE [ret |-> "None", raised |-> FALSE]

\* The extractor runs, then `if success and os.path.exists(cab_path)`.
Extract(i) ==
    /\ mainpc = "pool"
    /\ items[i].pc = "extract"
    /\ \E outcome \in ExtractOutcomes :
          /\ outcome = "ok" => Dir(i) \in cabs
          /\ LET r == IF platform = "win32" THEN extract_cab_windows(outcome)
                      ELSE extract_cab_unix(outcome)
                 it == [items[i] EXCEPT !.ex = outcome]
             IN  IF r.raised
                 THEN Finish(i, [it EXCEPT !.exc = "extract"], OnException, cabs)
                 ELSE IF r.ret = "True" /\ Dir(i) \in cabs
                      THEN items' = [items EXCEPT ![i] = [it EXCEPT !.pc = "remove"]]
                      ELSE Finish(i, it, r.ret, cabs)
    /\ UNCHANGED <<platform, file, cabs, mainpc, crash, data, loaded, pidx,
                   clock, probes, saveCount, summary>>

\* Mutant: the item returns success without removing the archive.
RemoveKeepsArchive(i) ==
    /\ mainpc = "pool"
    /\ items[i].pc = "remove"
    /\ cabs' = cabs
    /\ Finish(i, items[i], "True", cabs)
    /\ UNCHANGED <<platform, file, mainpc, crash, data, loaded, pidx, clock,
                   probes, saveCount, summary>>

\* os.remove(cab_path); return success
Remove(i) ==
    /\ mainpc = "pool"
    /\ items[i].pc = "remove"
    /\ \E outcome \in {"ok", "oserror"} :
          IF outcome = "ok" /\ Dir(i) \in cabs
          THEN /\ cabs' = cabs \ {Dir(i)}
               /\ Finish(i, items[i], "True", cabs \ {Dir(i)})
          ELSE \* PermissionError, or FileNotFoundError when the file is gone
               /\ cabs' = cabs
               /\ Finish(i, [items[i] EXCEPT !.exc = "remove"], OnException, cabs)
    /\ UNCHANGED <<platform, file, mainpc, crash, data, loaded, pidx, clock,
                   probes, saveCount, summary>>

----------------------------------------------------------------------------
(* The end of main                                                         *)

Results == [i \in 1..Len(items) |-> items[i].result]

RECURSIVE PySum(_)
\* sum(results): True counts 1, False 0, and adding None raises TypeError.
PySum(rs) ==
    IF rs = <<>> THEN [raised |-> FALSE, val |-> 0]
    ELSE LET rest == PySum(SubSeq(rs, 1, Len(rs) - 1))
             last == rs[Len(rs)]
         IN  IF rest.raised \/ last \notin {"True", "False"}
             THEN [raised |-> TRUE, val |-> 0]
             ELSE [raised |-> FALSE, val |-> rest.val + (IF last = "True" THEN 1 ELSE 0)]

\* The pool is left when every item has returned; list(executor.map(...))
\* raises what a call raised; then the tally and the final line.
Summary ==
    /\ mainpc = "pool"
    /\ \A i \in 1..Len(items) : items[i].pc = "done"
    /\ IF \E i \in 1..Len(items) : items[i].result = "Raised"
       THEN mainpc' = "crashed" /\ crash' = "pool" /\ summary' = summary
       ELSE LET s == PySum(Results)
            IN  IF s.raised
                THEN mainpc' = "crashed" /\ crash' = "sum" /\ summary' = summary
                ELSE /\ mainpc' = "done"
                     /\ crash' = crash
                     /\ summary' = <<s.val, Len(items)>>
    /\ UNCHANGED <<platform, file, cabs, data, loaded, pidx, clock, probes,
                   saveCount, items>>

----------------------------------------------------------------------------

Init ==
    /\ platform \in {"win32", "linux"}
    /\ file \in InitialFiles
    /\ cabs \in {{}, Dirs}   \* archives left by earlier runs
    /\ mainpc = "load"
    /\ crash = "none"
    /\ data = EmptyDict
    /\ loaded = EmptyDict
    /\ pidx = 1
    /\ clock = 1
    /\ probes = <<>>
    /\ saveCount = 0
    /\ items = <<>>
    /\ summary = <<>>
    /\ lock = {}
    /\ inprint = {}
    /\ pending = [t \in Threads |-> <<>>]
    /\ recv = [i \in Workers |-> 0]

Next ==
    \/ Load /\ UNCHANGED tvars
    \/ Probe /\ UNCHANGED tvars
    \/ Save /\ UNCHANGED tvars
    \/ StartPool /\ UNCHANGED tvars
    \/ \E i \in 1..Len(items) : StartItem(i) /\ UNCHANGED tvars
    \/ \E i \in 1..Len(items) : Download(i) /\ UNCHANGED tvars
    \/ \E i \in 1..Len(items) : Extract(i) /\ UNCHANGED tvars
    \/ \E i \in 1..Len(items) : Remove(i) /\ UNCHANGED tvars
    \/ Summary /\ UNCHANGED tvars

Spec == Init /\ [][Next]_vars

----------------------------------------------------------------------------
(* A run with more work items than workers                                 *)

\* How many work items the record holds beyond MAX_WORKERS.
Overload == 1

PathNames == <<"q1", "q2", "q3", "q4", "q5", "q6", "q7", "q8">>

PoolUrl(k) ==
    [segs |-> <<"http:", "", "dl", "c", "upgr", "2024", "05", PathNames[k]>>,
     cab |-> TRUE]

\* A state file of an earlier run with MAX_WORKERS + Overload targets.
PoolRecord ==
    PyDict(<< <<"Win10", [k \in 1..(MAX_WORKERS + Overload) |-> <<PoolUrl(k), 0>>]>> >>)

InitPool ==
    /\ platform = "win32"
    /\ file = TextFile(JsonDump(PoolRecord))
    /\ cabs = {}
    /\ mainpc = "load"
    /\ crash = "none"
    /\ data = EmptyDict
    /\ loaded = EmptyDict
    /\ pidx = 1
    /\ clock = 1
    /\ probes = <<>>
    /\ saveCount = 0
    /\ items = <<>>
    /\ summary = <<>>
    /\ lock = {}
    /\ inprint = {}
    /\ pending = [t \in Threads |-> <<>>]
    /\ recv = [i \in Workers |-> 0]

\* The run of Next in which no probe finds a new target and an item either
\* fails to connect or goes through; the size of the pool is the same for
\* every other outcome.
NextPool ==
    \/ Load /\ UNCHANGED tvars
    \/ Probe /\ probes'[Len(probes')].kind = "error" /\ UNCHANGED tvars
    \/ Save /\ file'.text # <<>> /\ mainpc' # "crashed" /\ UNCHANGED tvars
    \/ StartPool /\ UNCHANGED tvars
    \/ \E i \in 1..Len(items) :
          StartItem(i) /\ items'[i].exc = "none" /\ UNCHANGED tvars
    \/ \E i \in 1..Len(items) :
          Download(i) /\ items'[i].dl \in {"ok", "conn"} /\ UNCHANGED tvars
    \/ \E i \in 1..Len(items) :
          Extract(i) /\ items'[i].ex = "ok" /\ UNCHANGED tvars
    \/ \E i \in 1..Len(items) :
          Remove(i) /\ items'[i].exc = "none" /\ UNCHANGED tvars
    \/ Summary /\ UNCHANGED tvars

PoolSpec == InitPool /\ [][NextPool]_vars

----------------------------------------------------------------------------
(* The threads, their print sections and the chunks of a download          *)

\* Every print of the program is the body of a `with print_lock:` block.  A
\* step that reaches one puts the section in pending[t]; the thread then
\* acquires the lock, writes, and releases it on leaving the block, and
\* only then goes on.
Idle(t) == pending[t] = <<>> /\ t \notin inprint

Say(t, msgs) ==
    /\ pending' = [pending EXCEPT ![t] = msgs]
    /\ UNCHANGED <<lock, inprint, recv>>

\* Mutant: the section is entered without taking print_lock.
AcquireNoLock(t) ==
    /\ pending[t] # <<>>
    /\ t \notin inprint
    /\ inprint' = inprint \cup {t}
    /\ UNCHANGED <<platform, file, cabs, mainpc, crash, data, loaded, pidx,
                   clock, probes, saveCount, items, summary, lock, pending, recv>>

\* `with print_lock:` blocks until the lock is free, then takes it.
Acquire(t) ==
    /\ pending[t] # <<>>
    /\ t \notin inprint
    /\ lock = {}
    /\ lock' = {t}
    /\ inprint' = inprint \cup {t}
    /\ UNCHANGED <<platform, file, cabs, mainpc, crash, data, loaded, pidx,
                   clock, probes, saveCount, items, summary, pending, recv>>

\* Mutant: the section is left with the lock still held.
ReleaseKeepsLock(t) ==
    /\ t \in inprint
    /\ pending' = [pending EXCEPT ![t] = Tail(pending[t])]
    /\ inprint' = inprint \ {t}
    /\ UNCHANGED <<platform, file, cabs, mainpc, crash, data, loaded, pidx,
                   clock, probes, saveCount, items, summary, lock, recv>>

\* The print(s) of the block, then the block's exit releases the lock.
Release(t) ==
    /\ t \in inprint
    /\ pending' = [pending EXCEPT ![t] = Tail(pending[t])]
    /\ inprint' = inprint \ {t}
    /\ lock' = lock \ {t}
    /\ UNCHANGED <<platform, file, cabs, mainpc, crash, data, loaded, pidx,
                   clock, probes, saveCount, items, summary, recv>>

\* load_existing_data warns when the file does not parse.
TLoad ==
    /\ Idle(0)
    /\ Load
    /\ Say(0, IF file.kind = "text" /\ ~JsonLoad(file.text).ok
              THEN <<"invalid_json">> ELSE <<>>)

\* The probe loop prints what it added, a missing header, or the error.
TProbe ==
    /\ Idle(0)
    /\ Probe
    /\ LET resp == probes'[Len(probes')]
       IN  Say(0, IF resp.kind = "error" THEN <<"error_fetching">>
                  ELSE IF resp.kind = "noloc" THEN <<"no_location">>
                  ELSE IF mainpc' # "crashed" /\ data' # data THEN <<"added">>
                  ELSE <<>>)

TSave == Idle(0) /\ Save /\ UNCHANGED tvars

\* "Processing N files with MAX_WORKERS workers..."
TStartPool ==
    /\ Idle(0)
    /\ StartPool
    /\ Say(0, IF mainpc' = "pool" THEN <<"processing">> ELSE <<>>)

\* Items whose worker has not yet returned to the pool.
Busy == {i \in 1..Len(items) : items[i].pc \notin {"queued", "done"} \/ ~Idle(i)}

\* The pool exists once main has printed its line; process_url runs up to
\* the "Downloading" line of download_cab.
TStartItem(i) ==
    /\ Idle(0)
    /\ Idle(i)
    /\ Cardinality(Busy) < MAX_WORKERS
    /\ StartItem(i)
    /\ Say(i, IF items'[i].exc = "makedirs"
              THEN <<"error_processing">> ELSE <<"downloading">>)

\* One more chunk of the body arrives and is written: the timeout of
\* requests.get bounds the wait for each read, not the number of reads.
Chunk(i) ==
    /\ mainpc = "pool"
    /\ items[i].pc = "download"
    /\ Idle(i)
    /\ cabs' = cabs \cup {Dir(i)}
    /\ recv' = [recv EXCEPT ![i] = IF recv[i] = 1 THEN 2 ELSE 1]
    /\ UNCHANGED <<platform, file, mainpc, crash, data, loaded, pidx, clock,
                   probes, saveCount, items, summary, lock, inprint, pending>>

\* The download ends: the body is complete, or an error ends it.
TDownload(i) ==
    /\ Idle(i)
    /\ Download(i)
    /\ items'[i].dl \in {"http", "conn"} => recv[i] = 0
    /\ Say(i, IF items'[i].dl = "ok" THEN <<>>
              ELSE IF items'[i].dl = "oserror" THEN <<"error_processing">>
              ELSE <<"error_downloading">>)

TExtract(i) ==
    /\ Idle(i)
    /\ Extract(i)
    /\ Say(i, IF items'[i].ex = "ok" THEN <<>>
              ELSE IF items'[i].exc = "extract" THEN <<"error_processing">>
              ELSE <<"error_extracting">>)

TRemove(i) ==
    /\ Idle(i)
    /\ Remove(i)
    /\ Say(i, IF items'[i].exc = "remove" THEN <<"error_processing">> ELSE <<>>)

\* The with block of the pool is left when every worker has returned.
TSummary ==
    /\ \A t \in Threads : Idle(t)
    /\ Summary
    /\ Say(0, IF mainpc' = "done" THEN <<"complete">> ELSE <<>>)

\* A run from a first start or from an unreadable file.
InitThreads ==
    /\ platform \in {"win32", "linux"}
    /\ file \in {AbsentFile, TextFile(<<>>)}
    /\ cabs = {}
    /\ mainpc = "load"
    /\ crash = "none"
    /\ data = EmptyDict
    /\ loaded = EmptyDict
    /\ pidx = 1
    /\ clock = 1
    /\ probes = <<>>
    /\ saveCount = 0
    /\ items = <<>>
    /\ summary = <<>>
    /\ lock = {}
    /\ inprint = {}
    /\ pending = [t \in Threads |-> <<>>]
    /\ recv = [i \in Workers |-> 0]

MainStep == TLoad \/ TProbe \/ TSave \/ TStartPool \/ TSummary

WorkerStep(i) ==
    /\ i <= Len(items)
    /\ TStartItem(i) \/ Chunk(i) \/ TDownload(i) \/ TExtract(i) \/ TRemove(i)

NextThreads ==
    \/ TLoad
    \/ TProbe
    \/ TSave
    \/ TStartPool
    \/ \E i \in 1..Len(items) : TStartItem(i)
    \/ \E i \in 1..Len(items) : Chunk(i)
    \/ \E i \in 1..Len(items) : TDownload(i)
    \/ \E i \in 1..Len(items) : TExtract(i)
    \/ \E i \in 1..Len(items) : TRemove(i)
    \/ TSummary
    \/ \E t \in Threads : Acquire(t)
    \/ \E t \in Threads : Release(t)

\* Every thread that can take a step is scheduled in the end; a thread
\* waiting for print_lock gets it once it stays free.
Fairness ==
    /\ WF_vars(MainStep \/ Acquire(0) \/ Release(0))
    /\ \A i \in Workers : WF_vars(WorkerStep(i) \/ Acquire(i) \/ Release(i))

ThreadSpec == InitThreads /\ [][NextThreads]_vars /\ Fairness

----------------------------------------------------------------------------
(* Notions the properties share                                            *)

\* main() has returned or was left by an exception.
RunEnded == mainpc \in {"done", "crashed"}

\* The run built its work list.
HadWorkList == mainpc \in {"pool", "done"} \/ crash \in {"pool", "sum"}

\* The record d maps product P to a mapping that holds URL U.
RecHas(d, P, U) ==
    d.type = "dict" /\ DictHas(d.items, P) /\ DictHas(DictGet(d.items, P), U)

RecTime(d, P, U) == DictGet(DictGet(d.items, P), U)

\* The (product, URL) pairs of a record.
Entries(d) ==
    {e \in {<<URLS[p], u>> : p \in 1..Len(URLS), u \in AllTargets} :
        RecHas(d, e[1], e[2])}

\* The record a later run would read from the state file.
SavedRecord == JsonLoad(file.text).val

Count(seq, Test(_)) == Cardinality({i \in 1..Len(seq) : Test(seq[i])})

Done(i) == items[i].pc = "done"

----------------------------------------------------------------------------
(* C1: a run with N work items attempts all of them and prints K/N, K the  *)
(* number of items that succeeded, whatever the outcome of each item.      *)
C1_SummaryIsKofN ==
    (RunEnded /\ HadWorkList) =>
        /\ \A i \in 1..Len(items) : Done(i)
        /\ summary = <<Cardinality({i \in 1..Len(items) : items[i].result = "True"}),
                       Len(items)>>

(* C2: only a failed save or a setup error (a state file that is no        *)
(* Location Record) ends main() by an exception; no download failure,      *)
(* extraction failure or per-item exception does.                          *)
C2_OnlySaveOrSetupEndsRun ==
    mainpc = "crashed" => crash \in {"save", "load", "probe", "flatten"}

(* C3: an item whose download failed (HTTP status, connection error, error *)
(* while streaming) returns False and leaves no archive.cab in its         *)
(* directory.                                                              *)
C3_FailedDownloadLeavesNoArchive ==
    \A i \in 1..Len(items) :
        (Done(i) /\ items[i].dl \in {"http", "conn", "stream"}) =>
            items[i].result = "False" /\ ~items[i].cabAtEnd

(* C4: an item whose download succeeded and whose extraction failed, on    *)
(* either platform, returns False and its archive.cab is still there.      *)
C4_FailedExtractionKeepsArchive ==
    \A i \in 1..Len(items) :
        (Done(i) /\ items[i].dl = "ok"
                 /\ items[i].ex \in {"nonzero", "timeout", "missing"}) =>
            items[i].result = "False" /\ items[i].cabAtEnd

(* C5: every entry of the loaded record keeps its timestamp, in memory     *)
(* after any probes and in the state file once saved, and no key occurs    *)
(* twice in memory or in the file.                                         *)
C5_LoadedEntriesKept ==
    \A e \in Entries(loaded) :
        /\ mainpc # "load" =>
              /\ RecHas(data, e[1], e[2])
              /\ RecTime(data, e[1], e[2]) = RecTime(loaded, e[1], e[2])
              /\ Count(data.items, LAMBDA kv : kv[1] = e[1]) = 1
              /\ Count(DictGet(data.items, e[1]), LAMBDA kv : kv[1] = e[2]) = 1
        /\ saveCount >= 1 =>
              /\ RecHas(SavedRecord, e[1], e[2])
              /\ RecTime(SavedRecord, e[1], e[2]) = RecTime(loaded, e[1], e[2])
              /\ Count(file.text, LAMBDA tok : tok.t = "key" /\ tok.k = e[1]) = 1
              /\ Count(file.text, LAMBDA tok : tok.t = "entry") =
                    Cardinality(Entries(SavedRecord))

\* A probe returned the recorded URL again and the record was saved.
C5_Witness ==
    /\ saveCount = 1
    /\ <<"Win10", UA>> \in Entries(loaded)
    /\ probes[1] = [kind |-> "redirect", loc |-> UA]
    /\ RecTime(SavedRecord, "Win10", UA) = 0

(* C6: a redirect target not recorded for its product is in the saved      *)
(* state with a timestamp of this run, next to every entry that was there  *)
(* before the run.                                                         *)
C6_NewTargetAdded ==
    saveCount >= 1 =>
        /\ \A p \in 1..Len(probes) :
              probes[p].kind = "redirect" =>
                 /\ RecHas(SavedRecord, URLS[p], probes[p].loc)
                 /\ ~RecHas(loaded, URLS[p], probes[p].loc) =>
                       RecTime(SavedRecord, URLS[p], probes[p].loc) = p
        /\ Entries(loaded) \subseteq Entries(SavedRecord)

\* A product with a recorded URL was redirected to another one.
C6_Witness ==
    /\ saveCount = 1
    /\ <<"Win10", UA>> \in Entries(loaded)
    /\ probes[1] = [kind |-> "redirect", loc |-> UB]
    /\ Entries(SavedRecord) = Entries(loaded) \cup {<<"Win10", UB>>}

(* C7: a probe whose response has no Location header, or whose request     *)
(* fails, leaves the record as it was and the loop goes on to the next     *)
(* product.                                                                *)
C7_FailedProbeChangesNothing ==
    [][(Len(probes') = Len(probes) + 1
        /\ probes'[Len(probes')].kind \in {"noloc", "error"}) =>
          (data' = data /\ pidx' = pidx + 1 /\ mainpc' = "probe")]_vars

\* The first probe found no Location header and its product has no key.
C7_Witness ==
    /\ pidx = 2
    /\ probes[1].kind = "noloc"
    /\ data = loaded
    /\ ~DictHas(data.items, "Win10")

(* C8: load_existing_data never raises, and gives an empty mapping when    *)
(* the state file is absent or does not hold a product -> {url -> time}    *)
(* mapping.                                                                *)
C8_LoadNeverRaises ==
    /\ crash # "load"
    /\ (mainpc = "probe" /\ pidx = 1
        /\ ~(file.kind = "text" /\ JsonLoad(file.text).ok
             /\ JsonLoad(file.text).val.type = "dict")) =>
          data = EmptyDict

(* C9: the record is saved once, after the last probe and before any item  *)
(* is started; from that save on no step changes the record in memory or   *)
(* the state file.                                                         *)
C9_SavedOnceBeforePool ==
    [][/\ saveCount' <= 1
       /\ saveCount' > saveCount => (pidx > Len(URLS) /\ items = <<>>)
       /\ (\E i \in 1..Len(items') : items'[i].pc # "queued") => saveCount' = 1
       /\ saveCount = 1 => (data' = data /\ file' = file)
       /\ data' # data => (mainpc = "load" \/ (mainpc = "probe" /\ saveCount = 0))]_vars

\* The pool runs on a record this run has extended.
C9_Witness ==
    /\ mainpc = "pool"
    /\ saveCount = 1
    /\ data # loaded
    /\ \E i \in 1..Len(items) : Done(i)
    /\ \E i \in 1..Len(items) : items[i].pc = "extract"

\* What an item returns when none of its steps raised.
PlainResult(it) ==
    IF it.dl # "ok" THEN "False"
    ELSE IF it.ex = "ok" THEN "True"
    ELSE IF platform = "win32" THEN "False"
    ELSE "None"

(* C10: an exception at any step of an item becomes the result False of    *)
(* that item; it never leaves the pool, and every other item still runs to *)
(* its own result.                                                         *)
C10_FailureIsolation ==
    /\ crash # "pool"
    /\ \A i \in 1..Len(items) :
          /\ items[i].exc # "none" => (Done(i) /\ items[i].result = "False")
          /\ (Done(i) /\ items[i].exc = "none") => items[i].result = PlainResult(items[i])
    /\ (mainpc = "done" \/ crash = "sum") => \A i \in 1..Len(items) : Done(i)

\* A run in which one item raised while downloading, one while removing its
\* archive, and one succeeded.
C10_Witness ==
    /\ mainpc = "done"
    /\ \E i, j \in 1..Len(items) :
          /\ items[i].exc = "download"
          /\ items[j].result = "True"
    /\ \E i \in 1..Len(items) : items[i].exc = "remove"

Failed == {"nonzero", "timeout", "missing"}

(* C11: whichever extractor runs, a non-zero exit, a timeout and a missing *)
(* tool each give a failure result and raise nothing into process_url.     *)
C11_ExtractorsNeverRaise ==
    \A i \in 1..Len(items) :
        items[i].ex \in Failed =>
            /\ items[i].exc # "extract"
            /\ Done(i) => items[i].result \in {"False", "None"}

(* C12: any two distinct work items of a run have distinct output          *)
(* directories, so no two workers ever touch the same archive.cab.         *)
C12_DirectoriesDistinct ==
    \A i, j \in 1..Len(items) : i # j => Dir(i) # Dir(j)

\* The (product, URL) pairs of the work list.
Pairs(its) == {<<its[i].os_name, its[i].url>> : i \in 1..Len(its)}

(* C13: the work list holds every (product, URL) pair of the record, those *)
(* loaded and those found in this run, each once; an item is handed to a   *)
(* worker once and every item has run when main() returns.                 *)
C13_WorkListIsWholeRecord ==
    [][HadWorkList' =>
         /\ Pairs(items') = Entries(data')
         /\ Len(items') = Cardinality(Entries(data'))
         /\ Entries(loaded') \subseteq Pairs(items')
         /\ \A p \in 1..Len(probes') :
               probes'[p].kind = "redirect" =>
                  <<URLS[p], probes'[p].loc>> \in Pairs(items')
         /\ HadWorkList =>
               /\ Pairs(items') = Pairs(items)
               /\ \A i \in 1..Len(items) :
                     items[i].pc # "queued" => items'[i].pc # "queued"
         /\ mainpc' = "done" => \A i \in 1..Len(items') : items'[i].pc = "done"]_vars

\* A run over one loaded and two discovered URLs has ended.
C13_Witness ==
    /\ mainpc = "done"
    /\ Entries(loaded) = {<<"Win10", UA>>}
    /\ Pairs(items) = {<<"Win10", UA>>, <<"Win10", UB>>, <<"Win11", UC>>}
    /\ \A i \in 1..Len(items) : Done(i)

(* C14: an item that returns success leaves no archive.cab in its          *)
(* directory, and an archive.cab is removed only by an item that returns   *)
(* success in that step.                                                   *)
C14_ArchiveRemovedOnSuccess ==
    [][/\ \A i \in 1..Len(items') :
             items'[i].result = "True" =>
                /\ ~items'[i].cabAtEnd
                /\ items[i].result = "True"
                   \/ OutputDir(items'[i].os_name, items'[i].url) \notin cabs'
       /\ \A d \in cabs \ cabs' :
             \E i \in 1..Len(items) :
                /\ Dir(i) = d
                /\ items[i].pc = "remove"
                /\ items'[i].result = "True"]_vars

\* An item downloaded, extracted and removed its archive.
C14_Witness ==
    \E i \in 1..Len(items) :
        /\ items[i].result = "True"
        /\ items[i].dl = "ok" /\ items[i].ex = "ok"
        /\ ~items[i].cabAtEnd
        /\ Dir(i) \notin cabs

(* C15: at every moment at most MAX_WORKERS work items are being processed,
   however many there are, and the summary is computed and printed only
   after every work item has produced its result. *)
C15_PoolBoundedAndJoined ==
    /\ Cardinality(Active) <= MAX_WORKERS
    /\ (summary # <<>> \/ mainpc = "done" \/ crash \in {"pool", "sum"}) =>
          \A i \in 1..Len(items) : Done(i) /\ items[i].result # "pending"

\* All workers are busy and a further item waits in the queue.
C15_Witness ==
    /\ Len(items) > MAX_WORKERS
    /\ Cardinality(Active) = MAX_WORKERS
    /\ \E i \in 1..Len(items) : items[i].pc = "queued"

(* C16: every blocking operation of a work item is bounded by its timeout,
   so under fair scheduling every started work item finishes with a result
   and the pool hands control back to the coordinator. *)
C16_EveryItemFinishes ==
    /\ \A i \in Workers :
          (i <= Len(items) /\ items[i].pc # "queued")
             ~> (i <= Len(items) /\ Done(i) /\ Idle(i))
    /\ (mainpc = "pool") ~> (mainpc # "pool")

(* C17: every write to the print channel is made by a thread that holds
   print_lock, at most one thread holds print_lock, and two threads are
   never inside a print section at the same time. *)
C17_PrintsUnderLock ==
    [][/\ Cardinality(lock') <= 1
       /\ Cardinality(inprint') <= 1
       /\ inprint \subseteq lock /\ inprint' \subseteq lock'
       /\ \A t \in Threads :
             Len(pending'[t]) < Len(pending[t]) => t \in lock /\ t \in inprint]_vars

\* One worker is writing while another has a line to print and waits.
C17_Witness ==
    \E t, u \in Workers :
        /\ t # u
        /\ lock = {t} /\ inprint = {t}
        /\ pending[u] # <<>> /\ u \notin inprint

(* C18: print_lock is never requested by a thread that holds it and is
   released whenever a print section is left, the section of the exception
   handler included, so no thread waits for the lock forever. *)
C18_LockNeverDeadlocks ==
    /\ [](lock \subseteq inprint)
    /\ [][\A t \in lock' \ lock : lock = {} /\ t \notin inprint]_vars
    /\ \A t \in Threads : (pending[t] # <<>>) ~> (pending[t] = <<>>)
    /\ (lock # {}) ~> (lock = {})

\* The handler of process_url holds the lock for its error lines while
\* another worker waits for it.
C18_Witness ==
    \E t, u \in Workers :
        /\ t # u
        /\ lock = {t}
        /\ Head(pending[t]) = "error_processing"
        /\ items[t].exc # "none"
        /\ pending[u] # <<>> /\ u \notin lock

====
